---- MODULE Spec2Model ----
(***************************************************************************)
(* PrecisionPlugin (pytorch_lightning/plugins/precision/precision_plugin)  *)
(* : gradient clipping (clip_gradients) and the backward delegation        *)
(* (backward).                                                             *)
(*                                                                         *)
(* Numbers.  Tensor elements, norms and coefficients are exact rationals   *)
(* <<n, d>> (d > 0, lowest terms): the arithmetic of the code is modelled  *)
(* by its real-number meaning, without floating-point rounding.  The unit  *)
(* is 1e-6, so that EPSILON = 1e-6 is the rational 1 and a gradient        *)
(* element 3 stands for 3e-6.  Roots are exact: IRoot is defined only on   *)
(* perfect powers, and the gradient sets of Init are those on which every  *)
(* root the code takes is rational (scaling by a rational keeps that).     *)
(*                                                                         *)
(* The plugin keeps no state of its own and its two methods share none.    *)
(* Spec is clip_gradients called again and again on one optimizer with     *)
(* the clip_val and norm_type the caller was configured with (drawn in     *)
(* Init); SpecBackward is backward, statement by statement, called again   *)
(* and again on one model.                                                 *)
(***************************************************************************)
EXTENDS Integers, Sequences, FiniteSets, TLC

\* ---------------------------------------------------------------- bounds
MaxParams == 2      \* parameters of the optimizer
MaxCalls == 2       \* clip_gradients calls in one behaviour
MaxClip == 5        \* largest clip_val, in units of 1e-6
MaxOptIdx == 1      \* largest optimizer index passed to backward

\* numel of a gradient tensor
Numels == {1, 2}
\* gradient elements, in units of 1e-6
GradValues == {-4, 0, 3}
\* finite norm_type values (math.inf is added by NormTypes)
FiniteNorms == {1, 2}

\* ------------------------------------------------------------- constants
\* PrecisionPlugin.EPSILON = 1e-6, in units of 1e-6
EPSILON == 1

\* ------------------------------------------------------ exact arithmetic
IAbs(n) == IF n < 0 THEN -n ELSE n

RECURSIVE GCD(_, _)
GCD(a, b) == IF b = 0 THEN a ELSE GCD(b, a % b)

\* the rational n/d (d > 0) in lowest terms
Rat(n, d) == LET g == GCD(IAbs(n), d) IN <<n \div g, d \div g>>

Zero == <<0, 1>>
One == <<1, 1>>

RAdd(x, y) == Rat(x[1] * y[2] + y[1] * x[2], x[2] * y[2])
RMul(x, y) == Rat(x[1] * y[1], x[2] * y[2])
\* x / y for y # 0
RDiv(x, y) ==
    IF y[1] > 0 THEN Rat(x[1] * y[2], x[2] * y[1])
    ELSE Rat(-(x[1] * y[2]), -(x[2] * y[1]))
RNeg(x) == <<-x[1], x[2]>>
RSub(x, y) == RAdd(x, RNeg(y))
RAbs(x) == <<IAbs(x[1]), x[2]>>
RLe(x, y) == x[1] * y[2] <= y[1] * x[2]
RLt(x, y) == x[1] * y[2] < y[1] * x[2]
RMin(x, y) == IF RLe(x, y) THEN x ELSE y
RMax(x, y) == IF RLe(x, y) THEN y ELSE x

RECURSIVE IPow(_, _)
IPow(n, p) == IF p = 0 THEN 1 ELSE n * IPow(n, p - 1)
RPow(x, p) == <<IPow(x[1], p), IPow(x[2], p)>>

IsPower(n, p) == p = 1 \/ \E r \in 0..n : IPow(r, p) = n
\* the exact p-th root of a perfect p-th power (of nothing else)
IRoot(n, p) == IF p = 1 THEN n ELSE CHOOSE r \in 0..n : IPow(r, p) = n
IsRPower(x, p) == IsPower(x[1], p) /\ IsPower(x[2], p)
RRoot(x, p) == <<IRoot(x[1], p), IRoot(x[2], p)>>

\* --------------------------------------------------------------- tensors
\* a tensor is the sequence of its elements; an absent gradient is None
NoGrad == [is_none |-> TRUE, data |-> <<>>]
Grad(t) == [is_none |-> FALSE, data |-> t]

\* Python None / a number, for clip_val
NoneVal == [is_none |-> TRUE, v |-> 0]
Some(v) == [is_none |-> FALSE, v |-> v]

\* norm_type: math.inf or a positive number
Inf == [is_inf |-> TRUE, p |-> 0]
Finite(p) == [is_inf |-> FALSE, p |-> p]

RECURSIVE SeqSum(_)
SeqSum(s) == IF s = <<>> THEN Zero ELSE RAdd(Head(s), SeqSum(Tail(s)))

RECURSIVE SeqMax(_)
SeqMax(s) == IF Len(s) = 1 THEN s[1] ELSE RMax(s[1], SeqMax(Tail(s)))

\* t.abs().max()
abs_max(t) == SeqMax([i \in 1..Len(t) |-> RAbs(t[i])])

\* sum |x|^p of the elements
PowSum(t, p) == SeqSum([i \in 1..Len(t) |-> RPow(RAbs(t[i]), p)])

\* torch.norm(t, p) for a finite p: (sum |x|^p)^(1/p)
torch_norm(t, p) == RRoot(PowSum(t, p), p)

\* t.mul_(c)
mul_(t, c) == [i \in 1..Len(t) |-> RMul(t[i], c)]

\* float(clip_val)
float(v) == <<v, 1>>

\* ------------------------------------------------------------ the state
VARIABLES
    param_groups,   \* optimizer.param_groups: groups of parameters, each its .grad
    clip_val,       \* the caller's clip_val argument (None or a number)
    norm_type,      \* the caller's norm_type argument
    last,           \* outcome, total_norm and clip_coef of the last clip_gradients call
    before,         \* param_groups as the last clip_gradients call found them
    ncalls,         \* clip_gradients calls made so far
    changed,        \* per clip_gradients call so far: did it alter any gradient
    pc,             \* where the running backward call stands
    model,          \* the LightningModule: its flag and the calls of its backward hook
    loss,           \* the loss tensor of the closure and the calls of its backward
    frame,          \* arguments and locals of the running backward call
    ret             \* what the last backward call returned

clip_vars == <<param_groups, clip_val, norm_type, last, before, ncalls, changed>>
backward_vars == <<pc, model, loss, frame, ret>>

\* --------------------------------------------------------- master_params
\* the parameters in group-then-position order; a parameter is named by
\* its place <<group, position>> in optimizer.param_groups
RECURSIVE master_params_from(_, _, _)
master_params_from(optimizer, g, i) ==
    IF g > Len(optimizer) THEN <<>>
    ELSE IF i > Len(optimizer[g]) THEN master_params_from(optimizer, g + 1, 1)
    ELSE <<<<g, i>>>> \o master_params_from(optimizer, g, i + 1)

master_params(optimizer) == master_params_from(optimizer, 1, 1)

\* p.grad
grad(optimizer, p) == optimizer[p[1]][p[2]]

\* list(filter(lambda p: p.grad is not None, parameters))
filter_grad(optimizer, parameters) ==
    SelectSeq(parameters, LAMBDA p : ~grad(optimizer, p).is_none)

\* -------------------------------------------------------- clip_gradients
\* faulty variant of total_norm: the infinity norm looks at the first parameter only
total_norm_first(optimizer, parameters, nt) ==
    IF nt.is_inf
    THEN abs_max(grad(optimizer, parameters[1]).data)
    ELSE LET out == [i \in 1..Len(parameters) |->
                        torch_norm(grad(optimizer, parameters[i]).data, nt.p)]
         IN torch_norm(out, nt.p)

\* faulty variant of total_norm: the per-parameter norms are added up
total_norm_sum(optimizer, parameters, nt) ==
    IF nt.is_inf
    THEN SeqMax([i \in 1..Len(parameters) |->
                    abs_max(grad(optimizer, parameters[i]).data)])
    ELSE SeqSum([i \in 1..Len(parameters) |->
                    torch_norm(grad(optimizer, parameters[i]).data, nt.p)])

\* the total norm of the gradients of the (non-empty) list parameters
total_norm(optimizer, parameters, nt) ==
    IF nt.is_inf
    THEN SeqMax([i \in 1..Len(parameters) |->
                    abs_max(grad(optimizer, parameters[i]).data)])
    ELSE LET out == [i \in 1..Len(parameters) |->
                        torch_norm(grad(optimizer, parameters[i]).data, nt.p)]
         IN torch_norm(out, nt.p)

\* faulty variant of clip_coef: the coefficient is not clamped to 1
clip_coef_unclamped(max_norm, tn) == RDiv(max_norm, RAdd(tn, <<EPSILON, 1>>))

\* faulty variant of clip_coef: the larger of the two is taken, not the smaller
clip_coef_max(max_norm, tn) ==
    RMax(RDiv(max_norm, RAdd(tn, <<EPSILON, 1>>)), One)

\* faulty variant of clip_coef: EPSILON is left out of the denominator (total_norm > 0)
clip_coef_no_eps(max_norm, tn) ==
    IF tn = Zero THEN One ELSE RMin(RDiv(max_norm, tn), One)

\* min(max_norm / (total_norm + eps), 1)
clip_coef(max_norm, tn) ==
    LET eps == <<EPSILON, 1>>
        coef == RDiv(max_norm, RAdd(tn, eps))
    IN RMin(coef, One)

\* faulty variant of scale_grads: the loop stops after the first parameter
scale_grads_first(optimizer, parameters, coef) ==
    [g \in 1..Len(optimizer) |->
        [i \in 1..Len(optimizer[g]) |->
            IF parameters[1] = <<g, i>>
            THEN Grad(mul_(optimizer[g][i].data, coef))
            ELSE optimizer[g][i]]]

\* for p in parameters: p.grad.data.mul_(clip_coef)
scale_grads(optimizer, parameters, coef) ==
    [g \in 1..Len(optimizer) |->
        [i \in 1..Len(optimizer[g]) |->
            IF \E k \in 1..Len(parameters) : parameters[k] = <<g, i>>
            THEN Grad(mul_(optimizer[g][i].data, coef))
            ELSE optimizer[g][i]]]

Outcome(o, optimizer, tn, coef) ==
    [outcome |-> o, param_groups |-> optimizer, total_norm |-> tn, clip_coef |-> coef]

\* faulty variant of early_return: zero is not caught
early_return_negative(cv) == cv.is_none \/ RLt(float(cv.v), Zero)

\* the early returns: clip_val is None, or float(clip_val) <= 0
early_return(cv) == cv.is_none \/ RLe(float(cv.v), Zero)

\* faulty variant of clip_gradients_call: an empty parameter list returns quietly
clip_gradients_call_empty_ok(optimizer, cv, nt) ==
    IF early_return(cv) THEN Outcome("return", optimizer, Zero, One)
    ELSE LET max_norm == float(cv.v)
             parameters == filter_grad(optimizer, master_params(optimizer))
         IN IF parameters = <<>>
            THEN Outcome("return", optimizer, Zero, One)
            ELSE LET tn == total_norm(optimizer, parameters, nt)
                     coef == clip_coef(max_norm, tn)
                 IN Outcome("clipped", scale_grads(optimizer, parameters, coef), tn, coef)

\* one call clip_gradients(optimizer, cv, nt): how it ends and what it leaves
clip_gradients_call(optimizer, cv, nt) ==
    IF early_return(cv) THEN Outcome("return", optimizer, Zero, One)
    ELSE LET max_norm == float(cv.v)
             parameters == filter_grad(optimizer, master_params(optimizer))
         IN IF parameters = <<>>
            THEN Outcome("IndexError", optimizer, Zero, One)   \* parameters[0]
            ELSE LET tn == total_norm(optimizer, parameters, nt)
                     coef == clip_coef(max_norm, tn)
                 IN Outcome("clipped", scale_grads(optimizer, parameters, coef), tn, coef)

clip_gradients ==
    /\ ncalls < MaxCalls
    /\ LET r == clip_gradients_call(param_groups, clip_val, norm_type)
       IN /\ param_groups' = r.param_groups
          /\ last' = [outcome |-> r.outcome, total_norm |-> r.total_norm,
                      clip_coef |-> r.clip_coef]
    /\ before' = param_groups
    /\ changed' = Append(changed, param_groups' # param_groups)
    /\ ncalls' = ncalls + 1
    /\ UNCHANGED <<clip_val, norm_type>>
    /\ UNCHANGED backward_vars

\* -------------------------------------------------------------- backward
\* a tensor handle: the storage it names and whether it still hangs on the
\* computation graph (has a grad_fn)
AttachedLoss == [storage |-> "closure_loss", grad_fn |-> TRUE]

\* t.detach(): the same storage, cut from the graph
detach(t) == [t EXCEPT !.grad_fn = FALSE]

NoFrame ==
    [closure_loss |-> AttachedLoss, opt_idx |-> 0, should_accumulate |-> FALSE,
     args |-> <<>>, kwargs |-> {}, automatic_optimization |-> FALSE]
NoReturn == [returned |-> FALSE, value |-> AttachedLoss]

\* *args and **kwargs a caller may pass on
ExtraArgs == {<<>>, <<"gradient">>}
ExtraKwargs == {{}, {"retain_graph"}}

\* backward(model, closure_loss, optimizer, opt_idx, should_accumulate, *args,
\* **kwargs) is entered and reads model.automatic_optimization
backward_call ==
    /\ pc \in {"idle", "done", "raised"}
    /\ \E opt_idx \in 0..MaxOptIdx, should_accumulate \in BOOLEAN,
          args \in ExtraArgs, kwargs \in ExtraKwargs :
          frame' = [closure_loss |-> loss.tensor, opt_idx |-> opt_idx,
                    should_accumulate |-> should_accumulate,
                    args |-> args, kwargs |-> kwargs,
                    automatic_optimization |-> model.automatic_optimization]
    /\ model' = [model EXCEPT !.backward_calls = <<>>]
    /\ loss' = [loss EXCEPT !.backward_calls = <<>>]
    /\ ret' = NoReturn
    /\ pc' = "pass"
    /\ UNCHANGED clip_vars

\* faulty variant of use_model_hook: the branch follows should_accumulate
use_model_hook_accumulate(f) == f.should_accumulate

\* the branch of the backward pass: the model's hook or the loss's own backward
use_model_hook(f) == f.automatic_optimization

\* the backward pass; either callee may raise, which ends the call. What the
\* callee does to the gradients is the autograd engine's, not the plugin's.
backward_pass ==
    /\ pc = "pass"
    /\ IF use_model_hook(frame)
       THEN /\ model' = [model EXCEPT !.backward_calls =
                            Append(@, [closure_loss |-> frame.closure_loss,
                                       optimizer |-> "optimizer",
                                       opt_idx |-> frame.opt_idx])]
            /\ UNCHANGED loss
       ELSE /\ loss' = [loss EXCEPT !.backward_calls =
                            Append(@, [self |-> frame.closure_loss,
                                       args |-> frame.args,
                                       kwargs |-> frame.kwargs])]
            /\ UNCHANGED model
    /\ \E raises \in BOOLEAN : pc' = IF raises THEN "raised" ELSE "detach"
    /\ UNCHANGED <<frame, ret>>
    /\ UNCHANGED clip_vars

\* faulty variant of backward_detach: the loss is handed on as it is
backward_detach_skipped ==
    /\ pc = "detach"
    /\ pc' = "return"
    /\ UNCHANGED <<model, loss, frame, ret>>
    /\ UNCHANGED clip_vars

\* closure_loss = closure_loss.detach()
backward_detach ==
    /\ pc = "detach"
    /\ frame' = [frame EXCEPT !.closure_loss = detach(@)]
    /\ pc' = "return"
    /\ UNCHANGED <<model, loss, ret>>
    /\ UNCHANGED clip_vars

\* return closure_loss
backward_return ==
    /\ pc = "return"
    /\ ret' = [returned |-> TRUE, value |-> frame.closure_loss]
    /\ pc' = "done"
    /\ UNCHANGED <<model, loss, frame>>
    /\ UNCHANGED clip_vars

\* ------------------------------------------------------------------ Init
Tensors == UNION {[1..n -> {<<v, 1>> : v \in GradValues}] : n \in Numels}
Grads == {NoGrad} \cup {Grad(t) : t \in Tensors}
ParamLists == UNION {[1..n -> Grads] : n \in 0..MaxParams}
\* a parameter list as the optimizer's groups: one group of all the
\* parameters, or one group per parameter
Groupings(ps) == {<<ps>>, [i \in 1..Len(ps) |-> <<ps[i]>>]}

\* every root clip_gradients takes on this optimizer is rational
RationalRoots(optimizer) ==
    LET parameters == filter_grad(optimizer, master_params(optimizer))
    IN \A p \in FiniteNorms :
        /\ \A i \in 1..Len(parameters) :
              IsRPower(PowSum(grad(optimizer, parameters[i]).data, p), p)
        /\ IsRPower(SeqSum([i \in 1..Len(parameters) |->
                        PowSum(grad(optimizer, parameters[i]).data, p)]), p)

Optimizers ==
    {o \in UNION {Groupings(ps) : ps \in ParamLists} : RationalRoots(o)}

ClipVals == {NoneVal} \cup {Some(v) : v \in -1..MaxClip}
NormTypes == {Inf} \cup {Finite(p) : p \in FiniteNorms}

NoCall == [outcome |-> "none", total_norm |-> Zero, clip_coef |-> One]

\* no backward call is running and none has been made
BackwardIdle ==
    /\ pc = "idle"
    /\ model = [automatic_optimization |-> TRUE, backward_calls |-> <<>>]
    /\ loss = [tensor |-> AttachedLoss, backward_calls |-> <<>>]
    /\ frame = NoFrame
    /\ ret = NoReturn

Init ==
    /\ param_groups \in Optimizers
    /\ clip_val \in ClipVals
    /\ norm_type \in NormTypes
    /\ last = NoCall
    /\ before = param_groups
    /\ ncalls = 0
    /\ changed = <<>>
    /\ BackwardIdle

Next == clip_gradients

vars == <<param_groups, clip_val, norm_type, last, before, ncalls, changed,
          pc, model, loss, frame, ret>>

Spec == Init /\ [][Next]_vars

\* the backward calls of one training run, on a model whose flag is fixed
InitBackward ==
    /\ param_groups = <<<<Grad(<<<<3, 1>>, <<-4, 1>>>>)>>>>
    /\ clip_val = NoneVal
    /\ norm_type = Finite(2)
    /\ last = NoCall
    /\ before = param_groups
    /\ ncalls = 0
    /\ changed = <<>>
    /\ pc = "idle"
    /\ model \in [automatic_optimization : BOOLEAN, backward_calls : {<<>>}]
    /\ loss = [tensor |-> AttachedLoss, backward_calls |-> <<>>]
    /\ frame = NoFrame
    /\ ret = NoReturn

NextBackward ==
    \/ backward_call
    \/ backward_pass
    \/ backward_detach
    \/ backward_return

SpecBackward == InitBackward /\ [][NextBackward]_vars

\* ------------------------------------------- what the claims speak about
eps == <<EPSILON, 1>>
\* the relative tolerance 1e-4
RelTol == <<1, 10000>>

RECURSIVE Concat(_)
Concat(ss) == IF ss = <<>> THEN <<>> ELSE Head(ss) \o Concat(Tail(ss))

\* some parameter of the optimizer has a gradient
HasGrads(o) == \E g \in 1..Len(o) : \E i \in 1..Len(o[g]) : ~o[g][i].is_none

\* all the elements of all the gradients, as one vector
AllElems(o) ==
    LET ps == master_params(o)
    IN Concat([k \in 1..Len(ps) |-> grad(o, ps[k]).data])

AllZero(o) == LET es == AllElems(o) IN \A j \in 1..Len(es) : es[j] = Zero

\* the nt-norm of the full gradient set (some gradient present)
FlatNorm(o, nt) ==
    IF nt.is_inf THEN abs_max(AllElems(o)) ELSE torch_norm(AllElems(o), nt.p)

Called == last.outcome # "none"
Clipped == last.outcome = "clipped"
PositiveClip == ~clip_val.is_none /\ clip_val.v > 0
max_norm_arg == float(clip_val.v)

\* x is within the relative tolerance 1e-4 of y (y >= 0)
WithinRelTol(x, y) == RLe(RAbs(RSub(x, y)), RMul(RelTol, y))

\* C1: a call with clip_val = None or clip_val <= 0 returns normally and
\* leaves every gradient of every parameter as it was, whatever the
\* parameter set (also one without gradients) and the norm_type.
C1_NoOp ==
    (Called /\ (clip_val.is_none \/ clip_val.v <= 0))
        => (last.outcome = "return" /\ param_groups = before /\ changed[ncalls] = FALSE)

C1_Witness ==
    /\ last.outcome = "return"
    /\ ~clip_val.is_none /\ clip_val.v = 0
    /\ HasGrads(before) /\ ~AllZero(before)

C4_Target == RMin(FlatNorm(before, Inf), max_norm_arg)

C9_EmptyRaises ==
    (Called /\ PositiveClip /\ ~HasGrads(before))
        => (last.outcome = "IndexError" /\ param_groups = before)

C9_Witness ==
    /\ last.outcome = "IndexError"
    /\ Len(master_params(before)) >= 1
    /\ param_groups = before

\* C10: a call with clip_val > 0 on a parameter set with a gradient
\* multiplies every element of every present gradient by the same
\* coefficient c, 0 < c <= 1: no element grows in magnitude or changes sign,
\* and an absent gradient stays absent.
C10_SameCoefficient ==
    (Called /\ PositiveClip /\ HasGrads(before))
        => /\ Clipped
           /\ RLt(Zero, last.clip_coef) /\ RLe(last.clip_coef, One)
           /\ \A g \in 1..Len(before) : \A i \in 1..Len(before[g]) :
                 IF before[g][i].is_none
                 THEN param_groups[g][i] = NoGrad
                 ELSE /\ ~param_groups[g][i].is_none
                      /\ Len(param_groups[g][i].data) = Len(before[g][i].data)
                      /\ \A j \in 1..Len(before[g][i].data) :
                            LET x == before[g][i].data[j]
                                y == param_groups[g][i].data[j]
                            IN /\ y = RMul(x, last.clip_coef)
                               /\ RLe(RAbs(y), RAbs(x))
                               /\ (x[1] > 0 <=> y[1] > 0)
                               /\ (x[1] < 0 <=> y[1] < 0)

C10_Witness ==
    /\ Clipped /\ RLt(last.clip_coef, One)
    /\ \E g \in 1..Len(before) : \E i \in 1..Len(before[g]) : before[g][i].is_none
    /\ LET es == AllElems(before)
       IN /\ \E j \in 1..Len(es) : es[j][1] < 0
          /\ \E j \in 1..Len(es) : es[j][1] > 0

\* ------------------------------------------------- claims about backward
PassCalls == Len(model.backward_calls) + Len(loss.backward_calls)

\* C6: in both modes, what backward returns is detached from the graph and
\* is not the attached handle it was given, and the loss is detached only
\* once the backward pass on the attached loss has been made.
C6_ReturnsDetached ==
    /\ pc = "done" => (ret.returned /\ ~ret.value.grad_fn /\ ret.value # loss.tensor)
    /\ ret.returned => pc = "done"
    /\ pc \in {"pass", "detach", "return", "done", "raised"}
          => (~frame.closure_loss.grad_fn
                 => /\ pc \in {"return", "done"}
                    /\ PassCalls = 1
                    /\ \A k \in 1..Len(model.backward_calls) :
                          model.backward_calls[k].closure_loss.grad_fn
                    /\ \A k \in 1..Len(loss.backward_calls) :
                          loss.backward_calls[k].self.grad_fn)

C6_Witness ==
    /\ pc = "done" /\ ret.returned
    /\ ~model.automatic_optimization
    /\ ret.value = detach(loss.tensor)

\* C8: each backward call makes exactly one backward computation, chosen by
\* model.automatic_optimization alone: the model's hook with (loss,
\* optimizer, opt_idx) when it is true, the loss's own backward with the
\* extra arguments when it is false.
C8_OnePass ==
    /\ pc = "pass" => PassCalls = 0
    /\ pc \in {"detach", "return", "done", "raised"} =>
          IF model.automatic_optimization
          THEN /\ model.backward_calls =
                     <<[closure_loss |-> loss.tensor, optimizer |-> "optimizer",
                        opt_idx |-> frame.opt_idx]>>
               /\ loss.backward_calls = <<>>
          ELSE /\ loss.backward_calls =
                     <<[self |-> loss.tensor, args |-> frame.args,
                        kwargs |-> frame.kwargs]>>
               /\ model.backward_calls = <<>>

C8_Witness ==
    /\ pc = "done"
    /\ model.automatic_optimization /\ ~frame.should_accumulate
    /\ frame.args # <<>> /\ frame.kwargs # {}
    /\ Len(model.backward_calls) = 1

====
